---------------------------- MODULE Spec2Model ----------------------------
(***************************************************************************)
(* A model of src/auto_qPCR.py: the Streamlit script that normalises qPCR  *)
(* CT readings against housekeeping genes.  One execution of the script    *)
(* (one "run") is a sequence of steps over the script's variables; every   *)
(* user interaction re-executes the script from its first line.            *)
(*                                                                         *)
(* Numbers.  The script computes in IEEE doubles.  The model computes in   *)
(* exact arithmetic over the values that occur: a rational n/d, plus at    *)
(* most one surd c * p^(1/r) (the geometric mean of integer CT values),    *)
(* NaN (pandas' missing marker) and -inf (the logarithm of 0).  Rounding   *)
(* error of the doubles is not modelled.                                   *)
(* Text.  A string is a sequence of one-character strings.                 *)
(* Scope.  The 'Amplification Results' branch with a file uploaded (lines   *)
(* 14-144).  The melt-curve branch (lines 146-194) binds none of the        *)
(* variables below and is left out, as are colours, layout and the PDF.     *)
(***************************************************************************)
EXTENDS Integers, Sequences, FiniteSets, TLC

(***************************************************************************)
(* Values                                                                  *)
(***************************************************************************)
NaN == [k |-> "nan"]
NegInf == [k |-> "ninf"]
Str(s) == [k |-> "str", s |-> s]

Abs(x) == IF x < 0 THEN -x ELSE x

RECURSIVE Gcd(_, _)
Gcd(a, b) == IF b = 0 THEN Abs(a) ELSE Gcd(b, a % b)

RECURSIVE IntPow(_, _)
IntPow(x, e) == IF e = 0 THEN 1 ELSE x * IntPow(x, e - 1)

\* The number n/d + c * p^(1/r), in lowest terms.
Num(n, d, c, p, r) ==
    LET g == Gcd(n, d)
        s == IF d < 0 THEN -1 ELSE 1
    IN  [k |-> "real", n |-> s * (n \div g), d |-> s * (d \div g),
         c |-> c, p |-> p, r |-> r]

Rat(n, d) == Num(n, d, 0, 1, 1)
IntVal(n) == Rat(n, 1)

IsNaN(v) == v.k = "nan"
IsReal(v) == v.k = "real"
IsRat(v) == v.k = "real" /\ v.c = 0

\* x^e, or some number above cap when x^e is above cap.
RECURSIVE PowUpTo(_, _, _)
PowUpTo(x, e, cap) ==
    IF e = 0 THEN 1
    ELSE LET t == PowUpTo(x, e - 1, cap) IN IF t > cap THEN t ELSE x * t

\* p^(1/r) for an integer p >= 1, reduced: the largest g dividing r with p a
\* perfect g-th power is taken out of the root.
Root(p, r) ==
    LET gs == {g \in 1..r : r % g = 0 /\ \E x \in 1..p : PowUpTo(x, g, p) = p}
        g == CHOOSE x \in gs : \A y \in gs : y <= x
        q == CHOOSE x \in 1..p : PowUpTo(x, g, p) = p
    IN  IF q = 1 \/ r \div g = 1 THEN IntVal(q)
        ELSE Num(0, 1, 1, q, r \div g)

\* a - b in floating point: NaN propagates.  At most one operand has a surd.
Sub(a, b) ==
    IF IsNaN(a) \/ IsNaN(b) THEN NaN
    ELSE LET n == a.n * b.d - b.n * a.d
             d == a.d * b.d
         IN  IF b.c # 0 THEN Num(n, d, -b.c, b.p, b.r)
             ELSE Num(n, d, a.c, a.p, a.r)

Neg(a) == Sub(IntVal(0), a)

\* 2 ** x: NaN for NaN, otherwise the number 2^x, kept as a power of two.
Pow2(x) == IF IsNaN(x) THEN NaN ELSE [k |-> "pow2", e |-> x]


\* The rational sum of a sequence of numbers without surds.
RECURSIVE RatSum(_)
RatSum(s) ==
    IF s = <<>> THEN IntVal(0)
    ELSE LET t == RatSum(Tail(s))
             h == Head(s)
         IN  Rat(h.n * t.d + t.n * h.d, h.d * t.d)

RECURSIVE LogProd(_)
LogProd(s) == IF s = <<>> THEN 1 ELSE Head(s).p * LogProd(Tail(s))

NotNaN(v) == ~IsNaN(v)

\* The values of a sequence.
Range(s) == {s[i] : i \in 1..Len(s)}

\* Series.dropna()
dropna(x) == SelectSeq(x, NotNaN)

\* np.log, element by element, of an integer-valued reading: ln(v) for v > 0,
\* -inf for 0, NaN (and a RuntimeWarning, not an exception) for v < 0.
\* A logarithm is kept as ln(p)/r.
np_log(v) ==
    IF IsNaN(v) THEN NaN
    ELSE IF v.n > 0 THEN [k |-> "log", p |-> v.n, r |-> 1]
    ELSE IF v.n = 0 THEN NegInf
    ELSE NaN

\* np.mean of a pandas Series, which is Series.mean(): NaN is skipped, an
\* empty or all-NaN series gives NaN, any -inf gives -inf.
np_mean(x) ==
    LET xs == dropna(x)
    IN  IF xs = <<>> THEN NaN
        ELSE IF \E i \in 1..Len(xs) : xs[i] = NegInf THEN NegInf
        ELSE IF xs[1].k = "log"
             THEN [k |-> "log", p |-> LogProd(xs), r |-> Len(xs)]
        ELSE LET t == RatSum(xs) IN Rat(t.n, t.d * Len(xs))

\* np.exp: exp(NaN) = NaN, exp(-inf) = 0, exp(ln(p)/r) = p^(1/r).
np_exp(v) ==
    IF IsNaN(v) THEN NaN
    ELSE IF v = NegInf THEN IntVal(0)
    ELSE Root(v.p, v.r)

\* np.log of a Series.
np_log_series(x) == [i \in 1..Len(x) |-> np_log(x[i])]

GeometricMean == "Geometric Mean"
IndividualMean == "Individual Mean"
Methods == {IndividualMean, GeometricMean}

\* Mutant of hk_agg: the arithmetic mean is taken of the raw array, where one
\* NaN makes the mean NaN.
hk_agg_no_skipna(x, norm_method) ==
    IF norm_method = GeometricMean
    THEN np_exp(np_mean(np_log_series(dropna(x))))
    ELSE IF \E i \in 1..Len(x) : IsNaN(x[i]) THEN NaN ELSE np_mean(x)

\* The aggregation lambda of hk_means, applied to one sample's readings x.
hk_agg(x, norm_method) ==
    IF norm_method = GeometricMean
    THEN np_exp(np_mean(np_log_series(dropna(x))))
    ELSE np_mean(x)

(***************************************************************************)
(* Text: CT cells and sample names                                         *)
(***************************************************************************)
Digits == <<"0", "1", "2", "3", "4", "5", "6", "7", "8", "9">>
IsDigit(c) == \E i \in 1..10 : Digits[i] = c
DigitVal(c) == (CHOOSE i \in 1..10 : Digits[i] = c) - 1
IsSpace(c) == c \in {" ", "\t", "\n", "\r"}

AllDigits(s) == Len(s) > 0 /\ \A i \in 1..Len(s) : IsDigit(s[i])
AllSpace(s) == Len(s) > 0 /\ \A i \in 1..Len(s) : IsSpace(s[i])

RECURSIVE DigitsVal(_)
DigitsVal(s) ==
    IF s = <<>> THEN 0
    ELSE 10 * DigitsVal(SubSeq(s, 1, Len(s) - 1)) + DigitVal(s[Len(s)])

Undetermined == <<"U", "n", "d", "e", "t", "e", "r", "m", "i", "n", "e", "d">>

\* Series.replace('Undetermined', np.nan): a cell that is exactly that text.
replace_Undetermined(v) == IF v = Str(Undetermined) THEN NaN ELSE v

\* Whether text s is a number for pd.to_numeric, over the characters of the
\* model (a sign and digits): an optional "-" and at least one digit.
IsNumericText(s) ==
    \/ AllDigits(s)
    \/ Len(s) > 1 /\ s[1] = "-" /\ AllDigits(Tail(s))

ParseNumber(s) ==
    IF s[1] = "-" THEN IntVal(-DigitsVal(Tail(s))) ELSE IntVal(DigitsVal(s))

\* Mutant of to_numeric: errors='ignore', which hands back what it cannot parse.
to_numeric_ignore(v) ==
    IF v.k = "str" /\ IsNumericText(v.s) THEN ParseNumber(v.s) ELSE v

\* pd.to_numeric(..., errors='coerce') of one cell: a number stays, a missing
\* cell stays missing, text is parsed and becomes NaN when it is no number.
to_numeric(v) ==
    IF v.k = "str"
    THEN IF IsNumericText(v.s) THEN ParseNumber(v.s) ELSE NaN
    ELSE v

\* results['CT'] as line 19 leaves it.
CoerceCT(v) == to_numeric(replace_Undetermined(v))

\* Mutant of ExtractLabel: the pattern (.*)\s*(\d+)$, whose white space is
\* optional: any name that ends with a digit is split before its last digit.
ExtractLabel_optional_space(s) ==
    IF Len(s) > 0 /\ IsDigit(s[Len(s)])
    THEN <<Str(SubSeq(s, 1, Len(s) - 1)), Str(SubSeq(s, Len(s), Len(s)))>>
    ELSE <<NaN, NaN>>

\* str.extract(r'(.*)\s+(\d+)$') on one name, as re.search finds it: the
\* leftmost start a, then the longest group 1 (greedy .*, no line break in
\* it), white space, digits up to the end of the text or to a final "\n".
\* <<Condition, Replicate>>, both NaN when nothing matches.
ExtractLabel(s) ==
    LET n == Len(s)
        ends == {n} \cup (IF n > 0 /\ s[n] = "\n" THEN {n - 1} ELSE {})
        ms == {m \in (0..n) \X (0..n) \X (0..n) \X ends :
                  /\ m[1] <= m[2] /\ m[2] < m[3] /\ m[3] < m[4]
                  /\ \A i \in (m[1] + 1)..m[2] : s[i] # "\n"
                  /\ AllSpace(SubSeq(s, m[2] + 1, m[3]))
                  /\ AllDigits(SubSeq(s, m[3] + 1, m[4]))}
    IN  IF ms = {} THEN <<NaN, NaN>>
        ELSE LET a == CHOOSE x \in {m[1] : m \in ms} :
                         \A m \in ms : x <= m[1]
                 i == CHOOSE x \in {m[2] : m \in {y \in ms : y[1] = a}} :
                         \A m \in ms : m[1] = a => m[2] <= x
                 m == CHOOSE y \in ms : y[1] = a /\ y[2] = i
             IN  <<Str(SubSeq(s, a + 1, i)), Str(SubSeq(s, m[3] + 1, m[4]))>>

\* A multiset of values: each distinct value with the number of times it occurs.
BagOf(xs) == [v \in Range(xs) |-> Cardinality({i \in 1..Len(xs) : xs[i] = v})]

\* GroupBy.agg 'mean' of a non-empty group without NaN.  The mean of equal
\* values is that value; any other mean is kept as the mean of its multiset.
agg_mean(xs) ==
    IF Cardinality(Range(xs)) = 1 THEN xs[1]
    ELSE [k |-> "mean", xs |-> BagOf(xs)]

\* Mutant of agg_std: the population standard deviation (ddof = 0), which is 0
\* for one row.
agg_std_population(xs) ==
    IF Cardinality(Range(xs)) = 1 THEN IntVal(0)
    ELSE [k |-> "std", xs |-> BagOf(xs)]

\* GroupBy.agg 'std' (the sample standard deviation, ddof = 1): NaN for a group
\* of one row (0/0), 0 for equal values.
agg_std(xs) ==
    IF Len(xs) = 1 THEN NaN
    ELSE IF Cardinality(Range(xs)) = 1 THEN IntVal(0)
    ELSE [k |-> "std", xs |-> BagOf(xs)]

(***************************************************************************)
(* The script's state                                                      *)
(***************************************************************************)
VARIABLES
    uploaded_file,      \* the rows of the 'Results' sheet, as uploaded
    pc,                 \* the script's position
    defined,            \* the names the run has bound so far
    results,            \* the DataFrame results
    available_genes,
    housekeeping_genes,
    norm_method,
    genes_of_interest,
    hk_means,           \* Series: Sample Name -> reference value
    plot_data,
    conditions,
    summary,            \* the per-gene summaries, each row tagged with its gene
    bars,               \* the go.Bar traces handed to the figures
    normalized_csv,     \* the rows of the downloadable table
    session_state,      \* st.session_state, all that outlives a run
    remembered          \* observer: what an earlier completed run produced

vars == <<uploaded_file, pc, defined, results, available_genes,
          housekeeping_genes, norm_method, genes_of_interest, hk_means,
          plot_data, conditions, summary, bars, normalized_csv,
          session_state, remembered>>

NoMap == [s \in {} |-> NaN]
NothingRemembered == [set |-> FALSE]
\* The script never writes st.session_state.
EmptySession == [set |-> FALSE]

\* A fresh execution of the script: nothing is bound.
Fresh ==
    /\ pc = "start"
    /\ defined = {}
    /\ results = <<>>
    /\ available_genes = {}
    /\ housekeeping_genes = {}
    /\ norm_method = GeometricMean
    /\ genes_of_interest = {}
    /\ hk_means = NoMap
    /\ plot_data = <<>>
    /\ conditions = {}
    /\ summary = {}
    /\ bars = {}
    /\ normalized_csv = <<>>

\* Lines 15-20: parse the sheet, coerce the CT column, list the genes.
Parse ==
    /\ pc = "start"
    /\ results' = [i \in 1..Len(uploaded_file) |->
                      [uploaded_file[i] EXCEPT !.CT = CoerceCT(@)]]
    /\ available_genes' = {uploaded_file[i].target : i \in 1..Len(uploaded_file)}
    /\ defined' = defined \cup {"results"}
    /\ pc' = "select"
    /\ UNCHANGED <<uploaded_file, housekeeping_genes, norm_method,
                   genes_of_interest, hk_means, plot_data, conditions, summary,
                   bars, normalized_csv, remembered, session_state>>

\* Lines 24-35: the sidebar widgets.  The genes of interest are offered among
\* the genes that are not housekeeping genes.
Select ==
    /\ pc = "select"
    /\ \E hk \in SUBSET available_genes, m \in Methods :
         \E goi \in SUBSET (available_genes \ hk) :
            /\ housekeeping_genes' = hk
            /\ norm_method' = m
            /\ genes_of_interest' = goi
    /\ pc' = "check"
    /\ UNCHANGED <<uploaded_file, defined, results, available_genes, hk_means,
                   plot_data, conditions, summary, bars, normalized_csv,
                   remembered, session_state>>

\* Mutant of CheckHousekeeping: the error is shown but the run is not stopped.
CheckHousekeeping_no_stop ==
    /\ pc = "check"
    /\ pc' = "hk"
    /\ UNCHANGED <<uploaded_file, defined, results, available_genes,
                   housekeeping_genes, norm_method, genes_of_interest, hk_means,
                   plot_data, conditions, summary, bars, normalized_csv,
                   remembered, session_state>>

\* Lines 37-39: st.error and st.stop() without a housekeeping gene.
CheckHousekeeping ==
    /\ pc = "check"
    /\ \/ housekeeping_genes = {} /\ pc' = "stopped"
       \/ housekeeping_genes # {} /\ pc' = "hk"
    /\ UNCHANGED <<uploaded_file, defined, results, available_genes,
                   housekeeping_genes, norm_method, genes_of_interest, hk_means,
                   plot_data, conditions, summary, bars, normalized_csv,
                   remembered, session_state>>

\* The columns t['CT'] and t['Expression (2^-dCt)'] of a table.
CtColumn(t) == [i \in 1..Len(t) |-> t[i].CT]
ExpressionColumn(t) == [i \in 1..Len(t) |-> t[i].Expression]

\* Lines 41-44: hk_data.groupby('Sample Name')['CT'].agg(...): one value per
\* sample that has a row of a housekeeping gene, from all of these rows.
GroupedHkMeans(res, hk, method) ==
    LET IsHk(r) == r.target \in hk
        hk_data == SelectSeq(res, IsHk)
    IN  [s \in {r.sample : r \in Range(hk_data)} |->
            LET OfSample(r) == r.sample = s
            IN  hk_agg(CtColumn(SelectSeq(hk_data, OfSample)), method)]

\* Mutant of ComputeHkMeans: the reference map is kept in st.session_state under
\* the housekeeping genes alone, and reused when these are the same.
ComputeHkMeans_cached ==
    /\ pc = "hk"
    /\ LET hit == session_state.set /\ session_state.key = housekeeping_genes
           val == IF hit THEN session_state.hk_means
                  ELSE GroupedHkMeans(results, housekeeping_genes, norm_method)
       IN  /\ hk_means' = val
           /\ session_state' = [set |-> TRUE, key |-> housekeeping_genes,
                                hk_means |-> val]
    /\ defined' = defined \cup {"hk_means"}
    /\ pc' = "join"
    /\ UNCHANGED <<uploaded_file, results, available_genes, housekeeping_genes,
                   norm_method, genes_of_interest, plot_data, conditions,
                   summary, bars, normalized_csv, remembered>>

ComputeHkMeans ==
    /\ pc = "hk"
    /\ hk_means' = GroupedHkMeans(results, housekeeping_genes, norm_method)
    /\ defined' = defined \cup {"hk_means"}
    /\ pc' = "join"
    /\ UNCHANGED <<uploaded_file, results, available_genes, housekeeping_genes,
                   norm_method, genes_of_interest, plot_data, conditions,
                   summary, bars, normalized_csv, remembered, session_state>>

\* Lines 46-48: the left join on 'Sample Name', then the two computed columns.
JoinRow(r, means) ==
    LET hk == IF r.sample \in DOMAIN means THEN means[r.sample] ELSE NaN
        dCt == Sub(r.CT, hk)
    IN  [well |-> r.well, sample |-> r.sample, target |-> r.target,
         CT |-> r.CT, HK_mean |-> hk, dCt |-> dCt, Expression |-> Pow2(Neg(dCt))]

Normalize ==
    /\ pc = "join"
    /\ results' = [i \in 1..Len(results) |-> JoinRow(results[i], hk_means)]
    /\ pc' = "label"
    /\ UNCHANGED <<uploaded_file, defined, available_genes, housekeeping_genes,
                   norm_method, genes_of_interest, hk_means, plot_data,
                   conditions, summary, bars, normalized_csv, remembered,
                   session_state>>

\* Line 50: the Condition and Replicate columns.
LabelRow(r) ==
    LET l == ExtractLabel(r.sample)
    IN  [well |-> r.well, sample |-> r.sample, target |-> r.target,
         CT |-> r.CT, HK_mean |-> r.HK_mean, dCt |-> r.dCt,
         Expression |-> r.Expression, Condition |-> l[1], Replicate |-> l[2]]

ExtractLabels ==
    /\ pc = "label"
    /\ results' = [i \in 1..Len(results) |-> LabelRow(results[i])]
    /\ pc' = "filter"
    /\ UNCHANGED <<uploaded_file, defined, available_genes, housekeeping_genes,
                   norm_method, genes_of_interest, hk_means, plot_data,
                   conditions, summary, bars, normalized_csv, remembered,
                   session_state>>

\* Mutant of PlotRows: the dropna is forgotten.
PlotRows_no_dropna(res, goi) ==
    LET Keep(r) == r.target \in goi
    IN  SelectSeq(res, Keep)

\* Line 52: the rows of the genes of interest whose Expression is not NaN.
PlotRows(res, goi) ==
    LET Keep(r) == r.target \in goi /\ ~IsNaN(r.Expression)
    IN  SelectSeq(res, Keep)

FilterPlotData ==
    /\ pc = "filter"
    /\ plot_data' = PlotRows(results, genes_of_interest)
    /\ defined' = defined \cup {"plot_data"}
    /\ pc' = "colors"
    /\ UNCHANGED <<uploaded_file, results, available_genes, housekeeping_genes,
                   norm_method, genes_of_interest, hk_means, conditions,
                   summary, bars, normalized_csv, remembered, session_state>>

\* Lines 56-65: the distinct conditions (NaN is one of them) and one column
\* per condition.  st.columns(0) raises StreamlitAPIException, which ends the
\* run.
ConditionsOf(pd) == {r.Condition : r \in Range(pd)}

ChooseColors ==
    /\ pc = "colors"
    /\ conditions' = ConditionsOf(plot_data)
    /\ defined' = defined \cup {"conditions"}
    /\ \/ Cardinality(ConditionsOf(plot_data)) = 0 /\ pc' = "crashed"
       \/ Cardinality(ConditionsOf(plot_data)) > 0 /\ pc' = "plots"
    /\ UNCHANGED <<uploaded_file, results, available_genes, housekeeping_genes,
                   norm_method, genes_of_interest, hk_means, plot_data, summary,
                   bars, normalized_csv, remembered, session_state>>

\* Line 69: gene_data.groupby('Condition')[...].agg(['mean', 'std']); rows
\* whose Condition is NaN belong to no group.
SummaryOf(pd, gene) ==
    LET OfGene(r) == r.target = gene
        gene_data == SelectSeq(pd, OfGene)
        groups == {r.Condition : r \in Range(gene_data)} \ {NaN}
    IN  {LET InGroup(r) == r.Condition = c
             xs == ExpressionColumn(SelectSeq(gene_data, InGroup))
         IN  [gene |-> gene, Condition |-> c, mean |-> agg_mean(xs),
              std |-> agg_std(xs)] : c \in groups}

\* Lines 73-84: one bar per condition: the matching summary rows' mean and std.
\* NaN == cond is False in pandas, so the NaN condition matches no row.
BarOf(sm, gene, cond) ==
    LET hit == {r \in sm : r.gene = gene /\ ~IsNaN(cond) /\ r.Condition = cond}
    IN  [gene |-> gene, x |-> cond,
         y |-> {r.mean : r \in hit}, error_y |-> {r.std : r \in hit}]

\* Lines 67-136: the loop over the genes of interest.
Plots ==
    /\ pc = "plots"
    /\ LET sm == UNION {SummaryOf(plot_data, g) : g \in genes_of_interest}
       IN  /\ summary' = sm
           /\ bars' = {BarOf(sm, g, c) : g \in genes_of_interest, c \in conditions}
    /\ defined' = defined \cup {"summary"}
    /\ pc' = "export"
    /\ UNCHANGED <<uploaded_file, results, available_genes, housekeeping_genes,
                   norm_method, genes_of_interest, hk_means, plot_data,
                   conditions, normalized_csv, remembered, session_state>>

\* to_csv writes NaN as an empty field and any other value as its text.
CsvField(v) == IF IsNaN(v) THEN Str(<<>>) ELSE v

\* Lines 138-144: every row of results, in the nine exported columns.
CsvRow(r) ==
    [sample |-> r.sample, Condition |-> CsvField(r.Condition),
     Replicate |-> CsvField(r.Replicate), well |-> r.well, target |-> r.target,
     CT |-> CsvField(r.CT), HK_mean |-> CsvField(r.HK_mean),
     dCt |-> CsvField(r.dCt), Expression |-> CsvField(r.Expression)]

\* Mutant of Export: the table is made of plot_data.
Export_plot_data ==
    /\ pc = "export"
    /\ normalized_csv' = [i \in 1..Len(plot_data) |-> CsvRow(plot_data[i])]
    /\ defined' = defined \cup {"normalized_csv"}
    /\ pc' = "done"
    /\ UNCHANGED <<uploaded_file, results, available_genes, housekeeping_genes,
                   norm_method, genes_of_interest, hk_means, plot_data,
                   conditions, summary, bars, remembered, session_state>>

Export ==
    /\ pc = "export"
    /\ normalized_csv' = [i \in 1..Len(results) |-> CsvRow(results[i])]
    /\ defined' = defined \cup {"normalized_csv"}
    /\ pc' = "done"
    /\ UNCHANGED <<uploaded_file, results, available_genes, housekeeping_genes,
                   norm_method, genes_of_interest, hk_means, plot_data,
                   conditions, summary, bars, remembered, session_state>>

\* A user interaction after the script ended (at its last line, at st.stop()
\* or with an exception): Streamlit executes the script again from line 1,
\* in a new namespace, on the same uploaded file.
Rerun ==
    /\ pc \in {"done", "stopped", "crashed"}
    /\ pc' = "start"
    /\ defined' = {}
    /\ results' = <<>>
    /\ available_genes' = {}
    /\ housekeeping_genes' = {}
    /\ norm_method' = GeometricMean
    /\ genes_of_interest' = {}
    /\ hk_means' = NoMap
    /\ plot_data' = <<>>
    /\ conditions' = {}
    /\ summary' = {}
    /\ bars' = {}
    /\ normalized_csv' = <<>>
    /\ UNCHANGED <<uploaded_file, remembered, session_state>>

Next ==
    \/ Parse
    \/ Select
    \/ CheckHousekeeping
    \/ ComputeHkMeans
    \/ Normalize
    \/ ExtractLabels
    \/ FilterPlotData
    \/ ChooseColors
    \/ Plots
    \/ Export
    \/ Rerun

(***************************************************************************)
(* Uploaded sheets.  The bounds, and the families of sheets drawn under    *)
(* them.                                                                   *)
(***************************************************************************)
MaxRows == 4
MaxWells == 4
MaxNameLen == 4
MaxCellLen == 3

A1 == <<"A", " ", "1">>
B == <<"B">>

Row(w, s, t, ct) == [well |-> w, sample |-> s, target |-> t, CT |-> ct]

\* The sheets of 1..maxRows rows over the given samples, genes and CT cells
\* (sequences).  Rows are drawn in one fixed order of their contents: the
\* script never depends on the order of the rows.
Sheets(samples, genes, cells, maxRows) ==
    LET ls == Len(samples)
        lg == Len(genes)
        K == ls * lg * Len(cells)
        Decode(i, o) == Row(i, samples[(o % ls) + 1],
                            genes[((o \div ls) % lg) + 1],
                            cells[(o \div (ls * lg)) + 1])
        Codes == UNION {{f \in [1..n -> 0..(K - 1)] :
                            \A i \in 1..(n - 1) : f[i] <= f[i + 1]} :
                        n \in 1..maxRows}
    IN  {[i \in 1..Len(f) |-> Decode(i, f[i])] : f \in Codes}

\* Two samples (one without a replicate number), a reference gene and a
\* target gene, determined and undetermined readings.
GeneralSheets ==
    Sheets(<<A1, B>>, <<"GAPDH", "GeneA">>,
           <<IntVal(2), IntVal(3), Str(Undetermined)>>, MaxRows)

\* One sample, two reference genes, readings of every sign.
WellSheets ==
    Sheets(<<A1>>, <<"GAPDH", "ACTB">>,
           <<IntVal(-1), IntVal(0), IntVal(1), IntVal(2), IntVal(4), NaN>>,
           MaxWells)

\* One sample of every name up to MaxNameLen characters, with a reference and
\* a target reading.
Names == UNION {[1..n -> {"A", " ", "1"}] : n \in 1..MaxNameLen}
NameSheets ==
    {<<Row(1, nm, "GAPDH", IntVal(2)), Row(2, nm, "GeneA", IntVal(3))>> :
        nm \in Names}

\* One target reading of every cell content: text up to MaxCellLen characters,
\* the sentinel in three letter cases, numbers, and the empty cell.
CellTexts == UNION {[1..n -> {"-", "0", "2", "x"}] : n \in 0..MaxCellLen}
LowerUndetermined == <<"u", "n", "d", "e", "t", "e", "r", "m", "i", "n", "e", "d">>
UpperUndetermined == <<"U", "N", "D", "E", "T", "E", "R", "M", "I", "N", "E", "D">>
Cells ==
    {Str(t) : t \in CellTexts \cup {Undetermined, LowerUndetermined, UpperUndetermined}}
    \cup {IntVal(2), IntVal(0), IntVal(-2), NaN}
CellSheets ==
    {<<Row(1, A1, "GAPDH", IntVal(2)), Row(2, A1, "GeneA", c)>> : c \in Cells}

\* The sheet of the end-to-end example, and one with two reference genes.
S1 == <<"s", "1">>
S2 == <<"s", " ", "2">>
RunSheets ==
    {<<Row(1, S1, "GAPDH", IntVal(18)), Row(2, S1, "GeneA", IntVal(22)),
       Row(3, S2, "GAPDH", IntVal(19)), Row(4, S2, "GeneA", Str(Undetermined))>>,
     <<Row(1, S2, "GAPDH", IntVal(2)), Row(2, S2, "ACTB", IntVal(8)),
       Row(3, S2, "GeneA", IntVal(5))>>}

InitWith(sheets) ==
    /\ uploaded_file \in sheets
    /\ remembered = NothingRemembered
    /\ session_state = EmptySession
    /\ Fresh

Init == InitWith(GeneralSheets)
Spec == Init /\ [][Next]_vars

InitWells == InitWith(WellSheets)
SpecWells == InitWells /\ [][Next]_vars

InitNames == InitWith(NameSheets)
SpecNames == InitNames /\ [][Next]_vars

InitCells == InitWith(CellSheets)
SpecCells == InitCells /\ [][Next]_vars

\* The run has the parameters of the run remembered.
SameParameters ==
    /\ remembered.housekeeping_genes = housekeeping_genes
    /\ remembered.norm_method = norm_method
    /\ remembered.genes_of_interest = genes_of_interest

\* The observer: it may note what a completed run was given and produced, and
\* that a run with other parameters completed after the run it remembers.
Observe ==
    /\ pc = "done"
    /\ \/ remembered' = [set |-> TRUE, between |-> FALSE,
                         housekeeping_genes |-> housekeeping_genes,
                         norm_method |-> norm_method,
                         genes_of_interest |-> genes_of_interest,
                         hk_means |-> hk_means, plot_data |-> plot_data]
       \/ /\ remembered.set
          /\ ~SameParameters
          /\ remembered' = [remembered EXCEPT !.between = TRUE]
    /\ remembered' # remembered
    /\ UNCHANGED <<uploaded_file, pc, defined, results, available_genes,
                   housekeeping_genes, norm_method, genes_of_interest, hk_means,
                   plot_data, conditions, summary, bars, normalized_csv,
                   session_state>>

NextObserved == Next \/ Observe
InitRuns == InitWith(RunSheets)
SpecRuns == InitRuns /\ [][NextObserved]_vars

(***************************************************************************)
(* Properties                                                              *)
(***************************************************************************)
FileRows == 1..Len(uploaded_file)

\* The coerced CT of row i of the sheet.
CtValue(i) == CoerceCT(uploaded_file[i].CT)

\* The reference value the run resolved for a sample: NaN without an entry.
HkReference(s) == IF s \in DOMAIN hk_means THEN hk_means[s] ELSE NaN

\* The non-missing readings of reference genes that a sample has in the sheet.
ReferenceReadings(s) ==
    {i \in FileRows : /\ uploaded_file[i].sample = s
                      /\ uploaded_file[i].target \in housekeeping_genes
                      /\ ~IsNaN(CtValue(i))}

\* d = ct - hk, by cross-multiplication of the rational parts; the surd of hk
\* enters d with the opposite sign.
IsDifference(d, ct, hk) ==
    /\ IsReal(d) /\ IsReal(ct) /\ IsReal(hk)
    /\ d.n * (ct.d * hk.d) = (ct.n * hk.d - hk.n * ct.d) * d.d
    /\ d.c = -hk.c
    /\ hk.c # 0 => d.p = hk.p /\ d.r = hk.r

\* The rows that make up the normalized set, as wells of the sheet.
NormalizedWells ==
    {i \in FileRows : /\ uploaded_file[i].target \in genes_of_interest
                      /\ ~IsNaN(CtValue(i))
                      /\ ~IsNaN(HkReference(uploaded_file[i].sample))}

\* C1: in a run with a non-empty reference-gene set, plot_data holds exactly
\* the rows of a gene of interest with a non-missing CT whose sample has a
\* non-missing reference value, each once and with dCt = CT - HK_mean; a sample
\* without a non-missing reference reading has no reference value and so loses
\* its own rows, and only these.
C1_NormalizedSet ==
    ("plot_data" \in defined /\ housekeeping_genes # {}) =>
        /\ {r.well : r \in Range(plot_data)} = NormalizedWells
        /\ Len(plot_data) = Cardinality(NormalizedWells)
        /\ \A r \in Range(plot_data) :
              /\ r.sample = uploaded_file[r.well].sample
              /\ r.target = uploaded_file[r.well].target
              /\ r.CT = CtValue(r.well)
              /\ r.HK_mean = HkReference(r.sample)
              /\ IsDifference(r.dCt, r.CT, r.HK_mean)
        /\ \A i \in FileRows :
              ReferenceReadings(uploaded_file[i].sample) = {}
                 => IsNaN(HkReference(uploaded_file[i].sample))

\* A run in which one sample has no reference reading and lost its row of a
\* gene of interest, while another sample's row was produced.
C1_Witness ==
    /\ "plot_data" \in defined
    /\ housekeeping_genes # {}
    /\ plot_data # <<>>
    /\ \E i \in FileRows :
          /\ uploaded_file[i].target \in genes_of_interest
          /\ ~IsNaN(CtValue(i))
          /\ ReferenceReadings(uploaded_file[i].sample) = {}
          /\ i \notin {r.well : r \in Range(plot_data)}

\* C6: a run without a housekeeping gene stops at the check and has produced no
\* reference map, normalized row, summary or export; a run that is at or past
\* the normalization has a non-empty set of housekeeping genes.
C6_BlockedWithoutReference ==
    /\ pc = "stopped" =>
          /\ housekeeping_genes = {}
          /\ defined \cap {"hk_means", "plot_data", "conditions", "summary",
                           "normalized_csv"} = {}
          /\ hk_means = NoMap /\ plot_data = <<>> /\ summary = {}
          /\ bars = {} /\ normalized_csv = <<>>
    /\ pc \in {"hk", "join", "label", "filter", "colors", "plots", "export",
               "done", "crashed"} => housekeeping_genes # {}
    /\ "hk_means" \in defined => housekeeping_genes # {}

\* A run stopped by the check.
C6_Witness == pc = "stopped" /\ housekeeping_genes = {} /\ "results" \in defined

\* The sentinel in any letter case.
IsSentinel(t) ==
    /\ Len(t) = Len(Undetermined)
    /\ \A i \in 1..Len(t) : t[i] \in {LowerUndetermined[i], UpperUndetermined[i]}

\* The integer that a digit string denotes: the sum of digit * 10^position.
RECURSIVE Denotes(_, _)
Denotes(t, i) ==
    IF i > Len(t) THEN 0
    ELSE DigitVal(t[i]) * IntPow(10, Len(t) - i) + Denotes(t, i + 1)

\* Text t denotes the integer v: digits, after an optional minus sign.
TextDenotes(t, v) ==
    \/ AllDigits(t) /\ v = Denotes(t, 1)
    \/ Len(t) > 1 /\ t[1] = "-" /\ AllDigits(Tail(t)) /\ v = -Denotes(Tail(t), 1)

\* Text that denotes some integer.
IsNumberText(t) ==
    LET body == IF Len(t) > 0 /\ t[1] = "-" THEN Tail(t) ELSE t
    IN  AllDigits(body)

\* C7: the coercion of the CT column never fails (the run always gets past it,
\* with one coerced value per row); the sentinel in any letter case, the empty
\* text, an empty cell and any text that is no number become missing; a number,
\* or text that denotes one, becomes that number; coercing the coerced value
\* again leaves it unchanged; so CT is missing exactly for these cells.
C7_Coercion ==
    /\ pc # "start" => "results" \in defined /\ Len(results) = Len(uploaded_file)
    /\ "results" \in defined =>
          \A i \in FileRows :
             LET raw == uploaded_file[i].CT
                 ct == results[i].CT
                 unreadable == \/ raw.k = "nan"
                               \/ raw.k = "str" /\ ~IsNumberText(raw.s)
             IN  /\ ct.k \in {"nan", "real"}
                 /\ raw.k = "str" /\ (IsSentinel(raw.s) \/ raw.s = <<>>) => IsNaN(ct)
                 /\ raw.k = "real" => ct = raw
                 /\ raw.k = "str" /\ IsNumberText(raw.s) =>
                       IsRat(ct) /\ ct.d = 1 /\ TextDenotes(raw.s, ct.n)
                 /\ IsNaN(ct) <=> unreadable
                 /\ CoerceCT(ct) = ct

\* A run that coerced the lower-case sentinel to missing.
C7_Witness ==
    /\ "results" \in defined
    /\ \E i \in FileRows : /\ uploaded_file[i].CT = Str(LowerUndetermined)
                           /\ IsNaN(results[i].CT)

\* Name s ends with white space followed by a run of digits: i is the place of
\* that white space.
SplitsAt(s, i) ==
    /\ i \in 1..(Len(s) - 1)
    /\ IsSpace(s[i])
    /\ AllDigits(SubSeq(s, i + 1, Len(s)))

Labelled == pc \in {"filter", "colors", "plots", "export", "done", "crashed"}

C9_RunsIndependent ==
    (pc = "done" /\ remembered.set /\ SameParameters)
        => /\ hk_means = remembered.hk_means
           /\ plot_data = remembered.plot_data
           /\ session_state = EmptySession

\* A completed run with the parameters of the run remembered, after a run with
\* other parameters has completed in between; the normalized set is not empty.
C9_Witness ==
    /\ pc = "done"
    /\ remembered.set
    /\ remembered.between
    /\ SameParameters
    /\ plot_data # <<>>
    /\ plot_data = remembered.plot_data

\* C10: a run with a housekeeping gene and without a gene of interest does not
\* fail: it never ends in an exception.
C10_EmptyTargetsComplete ==
    (housekeeping_genes # {} /\ genes_of_interest = {}) => pc # "crashed"

\* The sum of the (integer) CT values of a set of wells.
RECURSIVE SumCt(_)
SumCt(W) ==
    IF W = {} THEN 0
    ELSE LET i == CHOOSE x \in W : TRUE
         IN  CtValue(i).n * (IF CtValue(i).d = 1 THEN 1 ELSE 0) + SumCt(W \ {i})

RECURSIVE ProdCt(_)
ProdCt(W) ==
    IF W = {} THEN 1
    ELSE LET i == CHOOSE x \in W : TRUE IN CtValue(i).n * ProdCt(W \ {i})

\* The non-missing readings of one reference gene that a sample has.
GeneReadings(s, g) == {i \in ReferenceReadings(s) : uploaded_file[i].target = g}
GenesRead(s) == {g \in housekeeping_genes : GeneReadings(s, g) # {}}

\* The mean of all the sample's non-missing reference readings, each well once.
MeanOfWells(s) ==
    IF ReferenceReadings(s) = {} THEN NaN
    ELSE Rat(SumCt(ReferenceReadings(s)), Cardinality(ReferenceReadings(s)))

\* The sum over genes G of the mean of the gene's readings, as a fraction.
RECURSIVE SumOfGeneMeans(_, _)
SumOfGeneMeans(s, G) ==
    IF G = {} THEN IntVal(0)
    ELSE LET g == CHOOSE x \in G : TRUE
             t == SumOfGeneMeans(s, G \ {g})
             n == SumCt(GeneReadings(s, g))
             d == Cardinality(GeneReadings(s, g))
         IN  Rat(n * t.d + t.n * d, d * t.d)

\* The mean of the per-gene means: each gene that was read counts once.
MeanOfGeneMeans(s) ==
    IF GenesRead(s) = {} THEN NaN
    ELSE LET t == SumOfGeneMeans(s, GenesRead(s))
         IN  Rat(t.n, t.d * Cardinality(GenesRead(s)))

EqualWellCounts(s) ==
    \A g, h \in GenesRead(s) :
        Cardinality(GeneReadings(s, g)) = Cardinality(GeneReadings(s, h))

Arithmetic == "hk_means" \in defined /\ norm_method = IndividualMean
Geometric == "hk_means" \in defined /\ norm_method = GeometricMean

PositiveReadings(s) == {i \in ReferenceReadings(s) : CtValue(i).n > 0}

\* C3: in geometric-mean mode the reference value of a sample is the geometric
\* mean of its positive reference readings, a reading of zero or below being
\* left out like a missing one, and is missing when no positive reading remains.
C3_NonPositiveExcluded ==
    Geometric =>
        \A s \in DOMAIN hk_means :
            hk_means[s] = IF PositiveReadings(s) = {} THEN NaN
                          ELSE Root(ProdCt(PositiveReadings(s)),
                                    Cardinality(PositiveReadings(s)))

IsEmptyField(v) == v = Str(<<>>)

GroupRows(g, c) == {r \in Range(plot_data) : r.target = g /\ r.Condition = c}

=============================================================================
